---- MODULE Spec2Model ----
(***************************************************************************)
(* Model of liamvdv/run: the index file update engine of src/cmd.go.       *)
(*                                                                         *)
(* The index file and the temp file are byte strings; a byte string is a   *)
(* TLA+ string, read with Len, SubSeq and \o.  The records are encoded and *)
(* decoded byte by byte, as encoding/json does for the jsonCmd struct.     *)
(***************************************************************************)
EXTENDS Integers, Sequences, FiniteSets, TLC

(***************************************************************************)
(* Bounds of the model.                                                    *)
(***************************************************************************)
\* the largest number of records CreateCmd lets the index grow to under Spec
MaxRecords == 2
\* the largest number of records of an index a call starts from under SpecCall
MaxPool == 3
\* how often the same call is run in a row under SpecCall
MaxRuns == 2
\* the largest number of arguments handed to a script under SpecRun
MaxArgs == 3
\* the largest number of bytes after the closing bracket of an index under
\* SpecAppend
MaxPad == 10

(***************************************************************************)
(* Byte strings.                                                           *)
(***************************************************************************)
Ch(s, i) == IF 1 <= i /\ i <= Len(s) THEN SubSeq(s, i, i) ELSE ""

\* s[i:] of Go, with i counted from 1
From(s, i) == IF i > Len(s) THEN "" ELSE SubSeq(s, i, Len(s))

\* s[:i] of Go: the first i bytes
Take(s, i) == IF i <= 0 THEN "" ELSE SubSeq(s, 1, i)

HasPrefixAt(s, i, lit) ==
    /\ i >= 1
    /\ i + Len(lit) - 1 <= Len(s)
    /\ SubSeq(s, i, i + Len(lit) - 1) = lit

HasPrefix(s, prefix) == HasPrefixAt(s, 1, prefix)

Digits == <<"0", "1", "2", "3", "4", "5", "6", "7", "8", "9">>

IsDigit(c) == \E d \in 1..10 : Digits[d] = c

DigitVal(c) == (CHOOSE d \in 1..10 : Digits[d] = c) - 1

RECURSIVE UItoa(_)
UItoa(n) == IF n < 10 THEN Digits[n + 1] ELSE UItoa(n \div 10) \o Digits[(n % 10) + 1]

\* fmt.Sprintf("%d", n) and the integer encoding of json.Marshal
Itoa(n) == IF n < 0 THEN "-" \o UItoa(0 - n) ELSE UItoa(n)

RECURSIVE DigitsEnd(_, _)
\* the position after the run of digits of s that starts at i
DigitsEnd(s, i) == IF IsDigit(Ch(s, i)) THEN DigitsEnd(s, i + 1) ELSE i

RECURSIVE UAtoi(_, _, _, _)
UAtoi(s, i, j, acc) ==
    IF i >= j THEN acc ELSE UAtoi(s, i + 1, j, acc * 10 + DigitVal(Ch(s, i)))

\* strconv.Atoi: an optional sign, then digits only
Atoi(s) ==
    LET sg == IF Ch(s, 1) = "-" \/ Ch(s, 1) = "+" THEN 1 ELSE 0
        e  == DigitsEnd(s, sg + 1)
    IN IF e = sg + 1 \/ e /= Len(s) + 1
       THEN [ok |-> FALSE, val |-> 0]
       ELSE [ok |-> TRUE,
             val |-> IF Ch(s, 1) = "-" THEN 0 - UAtoi(s, sg + 1, e, 0)
                     ELSE UAtoi(s, sg + 1, e, 0)]

(***************************************************************************)
(* path/filepath on a unix platform.                                       *)
(***************************************************************************)
\* the working directory of the process, which filepath.Abs joins to
Cwd == "/w"

RECURSIVE SplitPath(_, _, _, _)
\* the components of s between slashes, from position i on
SplitPath(s, i, cur, acc) ==
    IF i > Len(s) THEN Append(acc, cur)
    ELSE IF Ch(s, i) = "/" THEN SplitPath(s, i + 1, "", Append(acc, cur))
    ELSE SplitPath(s, i + 1, cur \o Ch(s, i), acc)

RECURSIVE CleanParts(_, _, _, _)
\* filepath.Clean's pass over the components: drops "" and ".", resolves ".."
CleanParts(parts, i, rooted, out) ==
    IF i > Len(parts) THEN out
    ELSE LET c == parts[i] IN
         IF c = "" \/ c = "." THEN CleanParts(parts, i + 1, rooted, out)
         ELSE IF c = ".." THEN
              IF Len(out) > 0 /\ out[Len(out)] /= ".."
              THEN CleanParts(parts, i + 1, rooted, SubSeq(out, 1, Len(out) - 1))
              ELSE IF rooted THEN CleanParts(parts, i + 1, rooted, out)
              ELSE CleanParts(parts, i + 1, rooted, Append(out, c))
         ELSE CleanParts(parts, i + 1, rooted, Append(out, c))

RECURSIVE JoinParts(_, _)
JoinParts(parts, i) ==
    IF i > Len(parts) THEN ""
    ELSE IF i = Len(parts) THEN parts[i]
    ELSE parts[i] \o "/" \o JoinParts(parts, i + 1)

Clean(path) ==
    IF path = "" THEN "."
    ELSE LET rooted == Ch(path, 1) = "/"
             body   == JoinParts(CleanParts(SplitPath(path, 1, "", <<>>), 1, rooted, <<>>), 1)
         IN IF rooted THEN "/" \o body
            ELSE IF body = "" THEN "." ELSE body

Join(dir, name) ==
    IF dir = "" THEN (IF name = "" THEN "" ELSE Clean(name))
    ELSE IF name = "" THEN Clean(dir)
    ELSE Clean(dir \o "/" \o name)

\* mutant of Abs: the path is joined to the working directory even when it
\* is absolute
AbsJoined(path) == Join(Cwd, path)

Abs(path) == IF HasPrefix(path, "/") THEN Clean(path) ELSE Join(Cwd, path)

RECURSIVE StripSlashes(_)
StripSlashes(s) ==
    IF Len(s) > 0 /\ Ch(s, Len(s)) = "/" THEN StripSlashes(Take(s, Len(s) - 1)) ELSE s

RECURSIVE LastSlash(_, _)
\* the position of the last "/" of s at or before i, 0 if there is none
LastSlash(s, i) == IF i < 1 THEN 0 ELSE IF Ch(s, i) = "/" THEN i ELSE LastSlash(s, i - 1)

Base(path) ==
    IF path = "" THEN "."
    ELSE LET p == StripSlashes(path) IN
         IF p = "" THEN "/" ELSE From(p, LastSlash(p, Len(p)) + 1)

RECURSIVE ExtFrom(_, _)
ExtFrom(path, i) ==
    IF i < 1 \/ Ch(path, i) = "/" THEN ""
    ELSE IF Ch(path, i) = "." THEN From(path, i)
    ELSE ExtFrom(path, i - 1)

Ext(path) == ExtFrom(path, Len(path))

(***************************************************************************)
(* encoding/json for the jsonCmd struct of src/main.go.                    *)
(***************************************************************************)
jsonCmd(n, s, min, max) ==
    [Name |-> n, Script |-> s, Meta |-> [MinNumArgs |-> min, MaxNumArgs |-> max]]

\* the zero value of the struct
ZeroCmd == jsonCmd("", "", 0, 0)

RECURSIVE EscapeFrom(_, _)
\* the body of a JSON string: the quote and the backslash are escaped
EscapeFrom(s, i) ==
    IF i > Len(s) THEN ""
    ELSE LET c == Ch(s, i) IN
         (IF c = "\"" \/ c = "\\" THEN "\\" \o c ELSE c) \o EscapeFrom(s, i + 1)

\* mutant of Quote: the bytes of the string are written as they are
QuoteRaw(s) == "\"" \o s \o "\""

Quote(s) == "\"" \o EscapeFrom(s, 1) \o "\""

\* json.Marshal(cmd)
Marshal(cmd) ==
    "{\"commandName\":" \o Quote(cmd.Name)
      \o ",\"scriptName\":" \o Quote(cmd.Script)
      \o ",\"options\":{\"minNumArgs\":" \o Itoa(cmd.Meta.MinNumArgs)
      \o ",\"maxNumArgs\":" \o Itoa(cmd.Meta.MaxNumArgs) \o "}}"

IsSpace(c) == c = " " \/ c = "\n" \/ c = "\t" \/ c = "\r"

RECURSIVE SkipSpace(_, _)
SkipSpace(s, i) == IF IsSpace(Ch(s, i)) THEN SkipSpace(s, i + 1) ELSE i

RECURSIVE StringBody(_, _, _)
\* reads the body of a JSON string from i: the value and the position after
\* the closing quote; a string that does not end, or an escape other than
\* \" and \\, is an error
StringBody(s, i, acc) ==
    IF i > Len(s) THEN [ok |-> FALSE, val |-> "", next |-> i]
    ELSE LET c == Ch(s, i) IN
         IF c = "\"" THEN [ok |-> TRUE, val |-> acc, next |-> i + 1]
         ELSE IF c = "\\" THEN
              (IF Ch(s, i + 1) = "\"" \/ Ch(s, i + 1) = "\\"
               THEN StringBody(s, i + 2, acc \o Ch(s, i + 1))
               ELSE [ok |-> FALSE, val |-> "", next |-> i])
         ELSE StringBody(s, i + 1, acc \o c)

ReadString(s, i) ==
    IF Ch(s, i) = "\"" THEN StringBody(s, i + 1, "")
    ELSE [ok |-> FALSE, val |-> "", next |-> i]

ReadInt(s, i) ==
    LET sg == IF Ch(s, i) = "-" THEN 1 ELSE 0
        e  == DigitsEnd(s, i + sg)
    IN IF e = i + sg THEN [ok |-> FALSE, val |-> 0, next |-> i]
       ELSE [ok |-> TRUE, val |-> Atoi(SubSeq(s, i, e - 1)).val, next |-> e]

\* a record that could not be decoded at i
BadCmd(i) == [ok |-> FALSE, cmd |-> ZeroCmd, next |-> i]

\* the end of the object, after its last member ma was read
ReadCmdEnd(s, i, n, sc, mi, ma) ==
    IF ~ma.ok \/ ~HasPrefixAt(s, ma.next, "}}") THEN BadCmd(i)
    ELSE [ok |-> TRUE, cmd |-> jsonCmd(n.val, sc.val, mi.val, ma.val), next |-> ma.next + 2]

\* the member maxNumArgs, after minNumArgs was read as mi
ReadCmdMax(s, i, n, sc, mi) ==
    IF ~mi.ok \/ ~HasPrefixAt(s, mi.next, ",\"maxNumArgs\":") THEN BadCmd(i)
    ELSE ReadCmdEnd(s, i, n, sc, mi, ReadInt(s, mi.next + Len(",\"maxNumArgs\":")))

\* the member options.minNumArgs, after scriptName was read as sc
ReadCmdMin(s, i, n, sc) ==
    IF ~sc.ok \/ ~HasPrefixAt(s, sc.next, ",\"options\":{\"minNumArgs\":") THEN BadCmd(i)
    ELSE ReadCmdMax(s, i, n, sc, ReadInt(s, sc.next + Len(",\"options\":{\"minNumArgs\":")))

\* the member scriptName, after commandName was read as n
ReadCmdScript(s, i, n) ==
    IF ~n.ok \/ ~HasPrefixAt(s, n.next, ",\"scriptName\":") THEN BadCmd(i)
    ELSE ReadCmdMin(s, i, n, ReadString(s, n.next + Len(",\"scriptName\":")))

\* the next JSON value of s from i, unmarshalled into a jsonCmd.  Objects are
\* read in the spelling Marshal writes (the only one the program produces);
\* any other text is a decode error.
ReadCmd(s, i) ==
    IF ~HasPrefixAt(s, i, "{\"commandName\":") THEN BadCmd(i)
    ELSE ReadCmdScript(s, i, ReadString(s, i + Len("{\"commandName\":")))

\* dec.Token() on a fresh decoder: "eof" and "invalid" are errors, "[" is the
\* opening bracket, "other" is any other token (an object, a string, a number)
Token(s) ==
    LET i == SkipSpace(s, 1)
        c == Ch(s, i)
    IN IF i > Len(s) THEN [kind |-> "eof", next |-> i]
       ELSE IF c = "[" THEN [kind |-> "[", next |-> i + 1]
       ELSE IF c = "{" \/ IsDigit(c) \/ ReadString(s, i).ok THEN [kind |-> "other", next |-> i + 1]
       ELSE [kind |-> "invalid", next |-> i]

\* dec.More(): the next byte after white space exists and closes nothing
More(s, i) ==
    LET j == SkipSpace(s, i) IN j <= Len(s) /\ Ch(s, j) /= "]" /\ Ch(s, j) /= "}"

\* dec.Decode(&cmd) inside the array: after the first element a comma is
\* required before the value
Decode(s, i, first) ==
    LET j == SkipSpace(s, i) IN
    IF first THEN ReadCmd(s, j)
    ELSE IF Ch(s, j) = "," THEN ReadCmd(s, SkipSpace(s, j + 1))
    ELSE [ok |-> FALSE, cmd |-> ZeroCmd, next |-> j]

RECURSIVE ParseElems(_, _, _, _)
ParseElems(s, i, first, acc) ==
    IF ~More(s, i)
    THEN LET j == SkipSpace(s, i) IN
         [ok |-> Ch(s, j) = "]" /\ SkipSpace(s, j + 1) > Len(s), cmds |-> acc]
    ELSE LET d == Decode(s, i, first) IN
         IF ~d.ok THEN [ok |-> FALSE, cmds |-> acc]
         ELSE ParseElems(s, d.next, FALSE, Append(acc, d.cmd))

\* the whole file read as one JSON array of records: ok says that it is a
\* syntactically valid array with nothing but white space after it
ParseIndex(s) ==
    LET t == Token(s) IN
    IF t.kind /= "[" THEN [ok |-> FALSE, cmds |-> <<>>]
    ELSE ParseElems(s, t.next, TRUE, <<>>)

(***************************************************************************)
(* The helpers and the callbacks of src/cmd.go.                            *)
(***************************************************************************)
\* the errors a call returns; "nil" is success
Nil == "nil"
ErrArgCount == "Wrong argument count"
ErrAtoi == "strconv.Atoi: invalid syntax"
ErrUsage == "usage"
ErrFormat == "Invalid JSON template"
ErrNoScript == "There is no such script in the provided directory."
CmdNotFoundErr == "Command not found."
ErrDecode == "json: decode error"
ErrEOF == "EOF"
ErrIO == "i/o error"
ErrNotExist == "no such file or directory"
ErrSeek == "seek: invalid argument"
ErrCallback == "callback error"

\* strconv.Atoi(args[i]) where parseCmd reads that argument
AtoiArg(args, i) == IF Len(args) >= i THEN Atoi(args[i]) ELSE [ok |-> TRUE, val |-> 0]

\* the third step of parseCmd: ma is the maximum as parsed
parseMax(args, cmd, ma) ==
    IF Len(args) < 4 THEN [err |-> Nil, cmd |-> cmd]
    ELSE IF ~ma.ok THEN [err |-> ErrAtoi, cmd |-> cmd]
    ELSE [err |-> Nil, cmd |-> [cmd EXCEPT !.Meta.MaxNumArgs = ma.val]]

\* the second step of parseCmd: mi is the minimum as parsed
parseMin(args, cmd, mi) ==
    IF Len(args) < 3 THEN [err |-> Nil, cmd |-> cmd]
    ELSE IF ~mi.ok THEN [err |-> ErrAtoi, cmd |-> cmd]
    ELSE parseMax(args, [cmd EXCEPT !.Meta.MinNumArgs = mi.val], AtoiArg(args, 4))

\* parseCmd(args, cmd): the error and the record as the call leaves it
parseCmd(args, cmd) ==
    IF Len(args) < 2 THEN [err |-> ErrArgCount, cmd |-> cmd]
    ELSE parseMin(args, [cmd EXCEPT !.Name = args[1], !.Script = Abs(args[2])],
                  AtoiArg(args, 3))

\* file.Write / file.WriteAt of bytes at byte offset off (counted from 0):
\* the bytes replace what is there and extend the file, nothing is truncated
WriteAt(data, bytes, off) ==
    Take(data, off) \o bytes \o From(data, off + Len(bytes) + 1)

RECURSIVE IndexByte(_, _, _)
\* the offset (from 0) of the first byte c of buf, -1 if there is none
IndexByte(buf, c, i) ==
    IF i > Len(buf) THEN -1
    ELSE IF Ch(buf, i) = c THEN i - 1
    ELSE IndexByte(buf, c, i + 1)

\* the size up to which appendToIndex takes the file for empty
EmptySize == 3
\* the number of bytes of the tail appendToIndex scans for the closing bracket
TailWindow == 10

\* mutant of appendToIndex: the record is written after the last byte and the
\* old closing bracket stays
appendAtEnd(data, rawJson) ==
    IF Len(data) <= EmptySize
    THEN [err |-> Nil, data |-> WriteAt(data, "[" \o rawJson \o "]", 0)]
    ELSE [err |-> Nil, data |-> WriteAt(data, "," \o rawJson \o "]", Len(data))]

\* appendToIndex on an opened file holding data: the error and the bytes the
\* file holds afterwards
appendToIndex(data, rawJson) ==
    LET size   == Len(data)
        offset == size - TailWindow
        buf    == From(data, offset + 1)
        end    == IndexByte(buf, "]", 1)
    IN IF size <= EmptySize
       THEN [err |-> Nil, data |-> WriteAt(data, "[" \o rawJson \o "]", 0)]
       ELSE IF offset < 0 THEN [err |-> ErrSeek, data |-> data]
       ELSE IF end = -1 THEN [err |-> ErrFormat, data |-> data]
       ELSE [err |-> Nil,
             data |-> WriteAt(data, Take(buf, end) \o "," \o rawJson \o "]", offset)]

\* the managed script directory and the index file in it (src/main.go)
ScriptDp == "/r"
INDEX_FILE == "cmd_mappings.json"

\* filepath.Dir of a clean absolute path
Dir(path) ==
    LET i == LastSlash(path, Len(path)) IN IF i <= 1 THEN "/" ELSE Take(path, i - 1)

\* the captured variables of the callbacks: hit (ModifyCmd, Find), rm
\* (DeleteCmd), takenNames (TidyCmd) and lCmd (Find), the pointer parameter of
\* Find, which points to the caller's jsonCmd ("caller") or to the record the
\* Finder decoded ("cmd")
ZeroClosure == [hit |-> FALSE, rm |-> {}, takenNames |-> {}, lCmd |-> "caller"]

\* what a callback hands back: the record as it leaves it, inc, esc, err, its
\* captured variables and the script files and directories on disk
FnResult(cmd, inc, esc, err, c, fs, ds) ==
    [cmd |-> cmd, inc |-> inc, esc |-> esc, err |-> err, cl |-> c, files |-> fs, dirs |-> ds]

\* the value parseCmd gets for position i of the update: the argument, or the
\* record's own value old where the argument is the keep token or is missing
Arg(updateArg, i, old) ==
    IF Len(updateArg) >= i /\ updateArg[i] /= "_" THEN updateArg[i] ELSE old

\* what modify hands back for the record named name, p being parseCmd's result
modified(p, c, fs, ds) ==
    FnResult(p.cmd, TRUE, FALSE, p.err, [c EXCEPT !.hit = TRUE], fs, ds)

\* mutant of modify: the keep token of the script path is not honoured
modifyScriptAlways(args, cmd, c, fs, ds) ==
    IF cmd.Name /= args[1] THEN FnResult(cmd, TRUE, FALSE, Nil, c, fs, ds)
    ELSE modified(parseCmd(<<Arg(Tail(args), 1, cmd.Name),
                             IF Len(args) >= 3 THEN args[3] ELSE cmd.Script,
                             Arg(Tail(args), 3, Itoa(cmd.Meta.MinNumArgs)),
                             Arg(Tail(args), 4, Itoa(cmd.Meta.MaxNumArgs))>>, cmd),
                  c, fs, ds)

\* the modify callback of ModifyCmd; args are the arguments of -mod: the name
\* of the record, then the update
modify(args, cmd, c, fs, ds) ==
    IF cmd.Name /= args[1] THEN FnResult(cmd, TRUE, FALSE, Nil, c, fs, ds)
    ELSE modified(parseCmd(<<Arg(Tail(args), 1, cmd.Name),
                             Arg(Tail(args), 2, cmd.Script),
                             Arg(Tail(args), 3, Itoa(cmd.Meta.MinNumArgs)),
                             Arg(Tail(args), 4, Itoa(cmd.Meta.MaxNumArgs))>>, cmd),
                  c, fs, ds)

\* mutant of incl: a name is dropped from the set once it was matched, so a
\* second record of that name is kept
inclOnce(excl, cmd, c, fs, ds) ==
    IF cmd.Name \in excl \ c.rm
    THEN FnResult(cmd, FALSE, FALSE, Nil, [c EXCEPT !.rm = @ \cup {cmd.Name}], fs, ds)
    ELSE FnResult(cmd, TRUE, FALSE, Nil, c, fs, ds)

\* the incl callback of DeleteCmd; excl is the set of the names to delete
incl(excl, cmd, c, fs, ds) ==
    IF cmd.Name \in excl
    THEN FnResult(cmd, FALSE, FALSE, Nil, [c EXCEPT !.rm = @ \cup {cmd.Name}], fs, ds)
    ELSE FnResult(cmd, TRUE, FALSE, Nil, c, fs, ds)

RECURSIVE FreeName(_, _, _, _)
\* the first name of the pattern name + n + ext that takenNames does not hold
FreeName(name, ext, n, takenNames) ==
    IF (name \o Itoa(n) \o ext) \in takenNames
    THEN FreeName(name, ext, n + 1, takenNames)
    ELSE name \o Itoa(n) \o ext

\* os.Rename(old, new) of a script file: fails if old does not exist or the
\* directory of new does not exist, and when the system call fails (ioFail);
\* a file at new is replaced
Rename(old, new, fs, ds, ioFail) ==
    IF ioFail \/ old \notin fs \/ Dir(new) \notin ds
    THEN [err |-> ErrIO, files |-> fs]
    ELSE [err |-> Nil, files |-> (fs \ {old}) \cup {new}]

\* the tidy callback of TidyCmd
tidy(ioFail, cmd, c, fs, ds) ==
    LET base       == Base(cmd.Script)
        ext        == Ext(base)
        name       == Take(cmd.Script, Len(cmd.Script) - Len(ext))
        scriptName == IF base \in c.takenNames
                      THEN FreeName(name, ext, 1, c.takenNames) ELSE base
        newPath    == Join(ScriptDp, scriptName)
        mv         == Rename(cmd.Script, newPath, fs, ds, ioFail)
    IN IF HasPrefix(cmd.Script, ScriptDp) THEN FnResult(cmd, TRUE, FALSE, Nil, c, fs, ds)
       ELSE IF mv.err /= Nil THEN FnResult(cmd, TRUE, FALSE, mv.err, c, fs, ds)
       ELSE FnResult([cmd EXCEPT !.Script = newPath], TRUE, FALSE, Nil, c, mv.files, ds)

\* a callback that leaves the record alone and answers as told: the engine
\* under any modFn
anyFn(answer, cmd, c, fs, ds) ==
    FnResult(cmd, answer = "keep", answer = "esc",
             IF answer = "err" THEN ErrCallback ELSE Nil, c, fs, ds)

(***************************************************************************)
(* The state: the files on disk and the call in progress.                  *)
(***************************************************************************)
VARIABLES
    index,   \* the index file: [exists, data]
    tmp,     \* the temp file <index>.tmp: [exists, data]
    files,   \* the script files on disk (paths)
    dirs,    \* the directories on disk (paths)
    pc,      \* where the call in progress stands; "idle" between calls
    call,    \* the call: [op, args]
    fr,      \* the locals of modOperation: dec's position, dstWr, another
    cl,      \* the variables the callback captured
    ret,     \* the error the call returned
    out,     \* the names DeleteCmd printed as non-existent
    found,   \* the jsonCmd of its caller that Find is handed a pointer to
    res,     \* the command line getCommand returned
    rd,      \* a second process, which reads the index through findOperation
    ap,      \* two more processes, each in a call of appendToIndex
    hist,    \* history: the index before the call and after each run of it
    log,     \* history: the callback's invocations in this run
    app,     \* history: the records appended since the index was last empty
    stale    \* history: a crash left the temp file behind

vars ==
    <<index, tmp, files, dirs, pc, call, fr, cl, ret, out, found, res, rd, ap, hist, log, app,
      stale>>

Absent == [exists |-> FALSE, data |-> ""]
File(data) == [exists |-> TRUE, data |-> data]

NoCall == [op |-> "none", args |-> <<>>]
ZeroFrame == [pos |-> 1, first |-> TRUE, buf |-> "", another |-> FALSE, opened |-> FALSE]
NoReturn == "none"

\* getCommand returned no command line (nil)
NoResult == <<>>

\* the reading process before it opened the index: where it stands, whether
\* the file it has open was replaced by a rename and the bytes that file
\* holds, dec's position, the records it decoded and the error it returned
RdIdle ==
    [pc |-> "idle", orphan |-> FALSE, old |-> "", pos |-> 1, first |-> TRUE, seen |-> <<>>,
     ret |-> "none"]

\* a process before its call of appendToIndex with the encoded record raw:
\* where it stands, the size it read, the offset and the bytes it is about
\* to write and the error it returned
ApProc(raw) == [pc |-> "stat", raw |-> raw, size |-> 0, off |-> 0, bytes |-> "", err |-> "none"]

\* no process appends; start is the index before the first of them began and
\* raced says that each had read the file before any wrote
ApIdle == [p |-> <<>>, start |-> "", raced |-> FALSE]

\* mutant of Renamed: the new bytes are copied into the index file, so that
\* a reader that has it open goes on in the new bytes
RenamedInPlace(r, idx) == r

\* os.Rename onto the index while the reader r has it open: the open file
\* keeps its bytes, idx, and has no name any more
Renamed(r, idx) ==
    IF r.pc \in {"token", "loop"} /\ ~r.orphan
    THEN [r EXCEPT !.orphan = TRUE, !.old = idx.data]
    ELSE r
Crashed == "crashed"

ModOps == {"modify", "delete", "tidy", "rewrite"}
ModPcs == {"mod_open", "mod_token", "mod_loop", "mod_rename"}

\* an index file appendToIndex takes for empty: no bytes, or an empty array
IsEmptyIndex(f) ==
    f.exists /\ Len(f.data) <= EmptySize
             /\ (f.data = "" \/ ParseIndex(f.data) = [ok |-> TRUE, cmds |-> <<>>])

Range(seq) == {seq[i] : i \in 1..Len(seq)}

\* the directory and those above it, as os.MkdirAll makes them
RECURSIVE Ancestors(_)
Ancestors(d) == IF d = "/" THEN {"/"} ELSE {d} \cup Ancestors(Dir(d))

\* the names os.ReadDir(scriptDp) lists
Entries(idx, t, fs, ds) ==
    {Base(f) : f \in {g \in fs \cup ds : g /= "/" /\ Dir(g) = ScriptDp}}
      \cup (IF idx.exists THEN {INDEX_FILE} ELSE {})
      \cup (IF t.exists THEN {INDEX_FILE \o ".tmp"} ELSE {})

(***************************************************************************)
(* modOperation, step by step.                                             *)
(***************************************************************************)
\* the callback the wrapper handed to modOperation, applied to one record;
\* answer is what the environment decides: the answer of an arbitrary
\* callback, or whether the rename system call of tidy fails
CallFn(c, answer, cmd, captured, fs, ds) ==
    CASE c.op = "modify" -> modify(c.args, cmd, captured, fs, ds)
      [] c.op = "delete" -> incl(Range(c.args), cmd, captured, fs, ds)
      [] c.op = "tidy"   -> tidy(answer = "fail", cmd, captured, fs, ds)
      [] OTHER           -> anyFn(answer, cmd, captured, fs, ds)

Answers(c) ==
    CASE c.op = "rewrite" -> {"keep", "drop", "esc", "err"}
      [] c.op = "tidy"    -> {"ok", "fail"}
      [] OTHER            -> {"ok"}

\* mutant of Outcome: the callback's error is not looked at
OutcomeErrIgnored(r) ==
    IF r.esc THEN "esc" ELSE IF r.inc THEN "inc" ELSE "skip"

\* mutant of Outcome: esc is not looked at
OutcomeEscIgnored(r) ==
    IF r.err /= Nil THEN "err" ELSE IF r.inc THEN "inc" ELSE "skip"

\* what modOperation does with the callback's answer: return its error,
\* return nil on esc, write the record on inc, else go on
Outcome(r) ==
    IF r.err /= Nil THEN "err"
    ELSE IF r.esc THEN "esc"
    ELSE IF r.inc THEN "inc"
    ELSE "skip"

\* the size of the buffer of bufio.NewWriter
BufSize == 4096

\* dstWr.Write(bytes): buffered, and written through when the buffer is full
BufWrite(f, t, bytes) ==
    LET all == f.buf \o bytes IN
    IF Len(all) <= BufSize THEN [buf |-> all, tmp |-> t]
    ELSE [buf |-> From(all, BufSize + 1), tmp |-> File(t.data \o Take(all, BufSize))]

\* mutant of Element: the comma between two records is left out
ElementNoComma(another, cmd) == Marshal(cmd)

\* the bytes an included record adds to dstWr: a comma unless it is the
\* first one written, then the record
Element(another, cmd) == (IF another THEN "," ELSE "") \o Marshal(cmd)

\* mutant of OpenDst: the output is opened at the index path itself, which
\* truncates the index
OpenDstInPlace(idx, t) ==
    [index |-> [idx EXCEPT !.exists = TRUE, !.data = ""],
     tmp |-> [t EXCEPT !.exists = TRUE, !.data = ""]]

\* os.OpenFile(fpExt, O_CREATE|O_TRUNC|O_RDWR): the two files afterwards
OpenDst(idx, t) == [index |-> idx, tmp |-> [t EXCEPT !.exists = TRUE, !.data = ""]]

\* os.Rename(fpExt, indexFp): the two files afterwards
Commit(idx, t) == [index |-> File(t.data), tmp |-> Absent]

\* mutant of Deferred: the temp file is never removed
DeferredNever(rmTmp, t) == t

\* the deferred os.Remove(fpExt), which runs unless the rename succeeded
Deferred(rmTmp, t) == IF rmTmp THEN Absent ELSE t

\* mutant of Epilogue: ModifyCmd does not look at hit
EpilogueNoMiss(c, err, captured) ==
    [ret |-> err, out |-> IF c.op = "delete" /\ err = Nil THEN Range(c.args) \ captured.rm ELSE {}]

\* what the wrapper returns and prints once modOperation returned err
Epilogue(c, err, captured) ==
    CASE c.op = "modify" ->
           [ret |-> IF err /= Nil THEN err
                    ELSE IF ~captured.hit THEN CmdNotFoundErr ELSE Nil,
            out |-> {}]
      [] c.op = "delete" ->
           [ret |-> err,
            out |-> IF err = Nil THEN Range(c.args) \ captured.rm ELSE {}]
      [] OTHER -> [ret |-> err, out |-> {}]

\* the history of the appends after the index changed to idx
AppAfter(idx) == [only |-> IsEmptyIndex(idx), raws |-> <<>>]

\* modOperation returns err: the deferred calls run, then the wrapper's end
ModReturn(err, captured, rmTmp, idx, t) ==
    /\ index' = idx
    /\ tmp' = Deferred(rmTmp, t)
    /\ cl' = captured
    /\ ret' = Epilogue(call, err, captured).ret
    /\ out' = Epilogue(call, err, captured).out
    /\ hist' = Append(hist, idx)
    /\ app' = IF idx = index THEN app ELSE AppAfter(idx)
    /\ stale' = (stale /\ Deferred(rmTmp, t).exists)
    /\ fr' = [ZeroFrame EXCEPT !.opened = fr.opened]
    /\ pc' = "done"

\* os.Open(indexFp), then os.OpenFile(fpExt, ...)
ModOpen ==
    /\ pc = "mod_open"
    /\ IF ~index.exists
       THEN /\ ModReturn(ErrNotExist, cl, FALSE, index, tmp)
            /\ UNCHANGED <<files, dirs, call, log, found, res, rd, ap>>
       ELSE /\ index' = OpenDst(index, tmp).index
            /\ tmp' = OpenDst(index, tmp).tmp
            /\ fr' = [fr EXCEPT !.opened = TRUE]
            /\ pc' = "mod_token"
            /\ UNCHANGED <<files, dirs, call, cl, ret, out, hist, log, app, stale, found, res, rd, ap>>

\* the first token, and the opening bracket written to dstWr
ModToken ==
    /\ pc = "mod_token"
    /\ LET t == Token(index.data) IN
       IF t.kind /= "["
       THEN /\ ModReturn(CASE t.kind = "eof" -> ErrEOF
                           [] t.kind = "other" -> ErrFormat
                           [] OTHER -> ErrDecode,
                         cl, TRUE, index, tmp)
            /\ UNCHANGED <<files, dirs, call, log, found, res, rd, ap>>
       ELSE /\ fr' = [fr EXCEPT !.pos = t.next, !.buf = BufWrite(fr, tmp, "[").buf]
            /\ tmp' = BufWrite(fr, tmp, "[").tmp
            /\ pc' = "mod_loop"
            /\ UNCHANGED <<index, files, dirs, call, cl, ret, out, hist, log, app, stale, found, res, rd, ap>>

\* the rest of a turn of the loop: the callback answered r for the record
\* decoded as d, o is what modOperation makes of the answer and w is dstWr
\* after the record was written
ModLoopAnswer(d, r, o, w) ==
    /\ log' = Append(log, [cmd |-> d.cmd, new |-> r.cmd, inc |-> r.inc,
                           esc |-> r.esc, err |-> r.err])
    /\ files' = r.files
    /\ dirs' = r.dirs
    /\ IF o = "err" \/ o = "esc"
       THEN /\ ModReturn(r.err, r.cl, TRUE, index, tmp)
            /\ UNCHANGED <<call, found, res, rd, ap>>
       ELSE /\ fr' = [fr EXCEPT !.pos = d.next, !.first = FALSE,
                                !.buf = IF o = "inc" THEN w.buf ELSE @,
                                !.another = (@ \/ o = "inc")]
            /\ tmp' = IF o = "inc" THEN w.tmp ELSE tmp
            /\ cl' = r.cl
            /\ UNCHANGED <<index, pc, call, ret, out, hist, app, stale, found, res, rd, ap>>

\* the callback is called with the record decoded as d and answers r
ModLoopCall(d, r) ==
    ModLoopAnswer(d, r, Outcome(r), BufWrite(fr, tmp, Element(fr.another, r.cmd)))

\* a turn of the loop after dec.Decode gave d
ModLoopDecoded(d) ==
    IF ~d.ok
    THEN /\ ModReturn(ErrDecode, cl, TRUE, index, tmp)
         /\ UNCHANGED <<files, dirs, call, log, found, res, rd, ap>>
    ELSE \E answer \in Answers(call) :
           ModLoopCall(d, CallFn(call, answer, d.cmd, cl, files, dirs))

\* the end of the loop: w is dstWr after the closing bracket, which is flushed
ModLoopFlush(w) ==
    /\ tmp' = File(w.tmp.data \o w.buf)
    /\ fr' = [fr EXCEPT !.buf = ""]
    /\ pc' = "mod_rename"
    /\ UNCHANGED <<index, files, dirs, call, cl, ret, out, hist, log, app, stale, found, res, rd, ap>>

\* one turn of the loop: the next record is decoded, handed to the callback
\* and written; after the last one the array is closed and flushed
ModLoop ==
    /\ pc = "mod_loop"
    /\ IF ~More(index.data, fr.pos)
       THEN ModLoopFlush(BufWrite(fr, tmp, "]"))
       ELSE ModLoopDecoded(Decode(index.data, fr.pos, fr.first))

\* os.Rename(fpExt, indexFp), the commit
ModRename ==
    /\ pc = "mod_rename"
    /\ ModReturn(Nil, cl, FALSE, Commit(index, tmp).index, Commit(index, tmp).tmp)
    /\ rd' = Renamed(rd, index)
    /\ UNCHANGED <<files, dirs, call, log, found, res, ap>>

ErrOpenTmp == "open tmp: i/o error"

\* a system call of modOperation fails: opening the temp file, reading the
\* index, flushing, renaming
ModIOFail ==
    /\ pc \in ModPcs
    /\ index.exists
    /\ IF pc = "mod_open"
       THEN ModReturn(ErrOpenTmp, cl, FALSE, index, tmp)
       ELSE ModReturn(ErrIO, cl, TRUE, index, tmp)
    /\ UNCHANGED <<files, dirs, call, log, found, res, rd, ap>>

\* the process dies in the middle of modOperation: nothing deferred runs
Crash ==
    /\ pc \in ModPcs
    /\ pc' = "done"
    /\ ret' = Crashed
    /\ hist' = Append(hist, index)
    /\ stale' = tmp.exists
    /\ fr' = [ZeroFrame EXCEPT !.opened = fr.opened]
    /\ UNCHANGED <<index, tmp, files, dirs, call, cl, out, log, app, found, res, rd, ap>>

(***************************************************************************)
(* The commands.                                                           *)
(***************************************************************************)
\* the start of a call c from rest: the wrapper up to its call of
\* modOperation.  hs is the history so far.
Begin(c, hs) ==
    LET early == CASE c.op = "modify" /\ Len(c.args) < 2 -> ErrUsage
                   [] c.op = "delete" /\ Len(c.args) < 1 -> ErrUsage
                   [] c.op = "tidy" /\ ScriptDp \notin dirs -> ErrNotExist
                   [] OTHER -> Nil
    IN /\ call' = [op |-> c.op, args |-> c.args]
       /\ fr' = ZeroFrame
       /\ log' = <<>>
       /\ out' = {}
       /\ cl' = IF c.op = "tidy" /\ early = Nil
                THEN [ZeroClosure EXCEPT !.takenNames = Entries(index, tmp, files, dirs)]
                ELSE ZeroClosure
       /\ IF early /= Nil
          THEN /\ pc' = "done"
               /\ ret' = early
               /\ hist' = Append(hs, index)
          ELSE /\ pc' = "mod_open"
               /\ ret' = NoReturn
               /\ hist' = hs
       /\ UNCHANGED <<index, tmp, files, dirs, app, stale, found, res, rd, ap>>

ModifyCmd(args) == pc = "idle" /\ Begin([op |-> "modify", args |-> args], <<index>>)

DeleteCmd(args) == pc = "idle" /\ Begin([op |-> "delete", args |-> args], <<index>>)

TidyCmd == pc = "idle" /\ Begin([op |-> "tidy", args |-> <<>>], <<index>>)

\* modOperation called with an arbitrary callback
Rewrite == pc = "idle" /\ Begin([op |-> "rewrite", args |-> <<>>], <<index>>)

\* the record CreateCmd starts from: any number of arguments by default
NewCmd == jsonCmd("", "", 0, -1)

\* CreateCmd returned err and left the index as idx; raw is the record it
\* encoded
CreateDone(err, idx, raw) ==
    /\ index' = idx
    /\ ret' = err
    /\ app' = IF err = Nil /\ app.only THEN [app EXCEPT !.raws = Append(@, raw)]
              ELSE IF idx = index THEN app ELSE AppAfter(idx)
    /\ hist' = <<index, idx>>

\* CreateCmd from the open of the index on: a is what appendToIndex did
CreateAppended(raw, a) == CreateDone(a.err, File(a.data), raw)

\* CreateCmd after parseCmd gave p: the script must exist, then the index is
\* opened (and made when it is missing) and the record appended
CreateParsed(p) ==
    IF p.err /= Nil THEN CreateDone(p.err, index, "")
    ELSE IF p.cmd.Script \notin files \cup dirs THEN CreateDone(ErrNoScript, index, "")
    ELSE IF ~index.exists /\ ScriptDp \notin dirs THEN CreateDone(ErrNotExist, index, "")
    ELSE CreateAppended(Marshal(p.cmd),
                        appendToIndex(IF index.exists THEN index.data ELSE "",
                                      Marshal(p.cmd)))

\* CreateCmd: the record is parsed, its script looked up, and the encoded
\* record appended; the index file is created when it is missing
CreateCmd(args) ==
    /\ pc = "idle"
    /\ CreateParsed(parseCmd(args, NewCmd))
    /\ call' = [op |-> "create", args |-> args]
    /\ pc' = "done"
    /\ UNCHANGED <<tmp, files, dirs, fr, cl, out, log, stale, found, res, rd, ap>>

\* SetUp has run and left the index as idx
SetUpDone(idx) ==
    /\ dirs' = dirs \cup Ancestors(ScriptDp)
    /\ index' = idx
    /\ app' = IF idx = index THEN app ELSE AppAfter(idx)
    /\ hist' = <<index, idx>>
    /\ ret' = Nil
    /\ call' = [call EXCEPT !.op = "setup"]
    /\ pc' = "done"
    /\ UNCHANGED <<tmp, files, fr, cl, out, log, stale, found, res, rd, ap>>

\* mutant of SetUp: the index is created without a look at what is there
SetUpAlways ==
    /\ pc = "idle"
    /\ SetUpDone([index EXCEPT !.exists = TRUE, !.data = "[]"])

\* SetUp: the script directory is made, and the index when it is missing
SetUp ==
    /\ pc = "idle"
    /\ SetUpDone(IF index.exists THEN index ELSE [index EXCEPT !.exists = TRUE, !.data = "[]"])

\* the process ends; the next command starts from rest
Exit ==
    /\ pc = "done"
    /\ pc' = "idle"
    /\ call' = NoCall
    /\ fr' = ZeroFrame
    /\ cl' = ZeroClosure
    /\ ret' = NoReturn
    /\ out' = {}
    /\ hist' = <<>>
    /\ log' = <<>>
    /\ found' = ZeroCmd
    /\ res' = NoResult
    /\ UNCHANGED <<index, tmp, files, dirs, app, stale, rd, ap>>

\* the same command is run once more
Rerun ==
    /\ pc = "done"
    /\ call.op \in ModOps
    /\ Len(hist) <= MaxRuns
    /\ Begin(call, hist)

(***************************************************************************)
(* findOperation, step by step, and its callers Find and ListCmd.          *)
(***************************************************************************)
FindOps == {"find", "list", "scan"}
FindPcs == {"find_open", "find_token", "find_loop"}

\* what a findFn hands back: esc, err, its captured variables and the jsonCmd
\* of Find's caller
FindResult(esc, err, c, mem) == [esc |-> esc, err |-> err, cl |-> c, mem |-> mem]

\* the find callback of Find: on a match the callback's own pointer lCmd is
\* set to the decoded record, which leaves the caller's jsonCmd as it was
find(name, cmd, c, mem) ==
    IF cmd.Name = name
    THEN FindResult(TRUE, Nil, [c EXCEPT !.lCmd = "cmd", !.hit = TRUE], mem)
    ELSE FindResult(FALSE, Nil, c, mem)

\* the print callback of ListCmd
print(cmd, c, mem) == FindResult(FALSE, Nil, c, mem)

\* a findFn that answers as told: the Finder under any callback
anyFindFn(answer, cmd, c, mem) ==
    FindResult(answer = "esc", IF answer = "err" THEN ErrCallback ELSE Nil, c, mem)

CallFind(c, answer, cmd, captured, mem) ==
    CASE c.op = "find" -> find(c.args[1], cmd, captured, mem)
      [] c.op = "list" -> print(cmd, captured, mem)
      [] OTHER         -> anyFindFn(answer, cmd, captured, mem)

FindAnswers(c) == IF c.op = "scan" THEN {"go", "esc", "err"} ELSE {"go"}

\* the error for a first token that is not the opening bracket
TokenErr(t) ==
    CASE t.kind = "eof" -> ErrEOF
      [] t.kind = "other" -> ErrFormat
      [] OTHER -> ErrDecode

\* mutant of FindEpilogue: a stream that ends without a match is no error
FindEpilogueNil(c, err, captured) == err

\* what the caller of findOperation returns once it returned err
FindEpilogue(c, err, captured) ==
    IF c.op = "find" /\ err = Nil /\ ~captured.hit THEN CmdNotFoundErr ELSE err

\* the start of a call c of the Finder from rest
FindBegin(c) ==
    /\ pc = "idle"
    /\ call' = [op |-> c.op, args |-> c.args]
    /\ fr' = ZeroFrame
    /\ cl' = ZeroClosure
    /\ log' = <<>>
    /\ ret' = NoReturn
    /\ hist' = <<index>>
    /\ pc' = "find_open"
    /\ UNCHANGED <<index, tmp, files, dirs, out, found, res, rd, ap, app, stale>>

Find(name) == FindBegin([op |-> "find", args |-> <<name>>])

ListCmd == FindBegin([op |-> "list", args |-> <<>>])

\* findOperation called with an arbitrary callback
Scan == FindBegin([op |-> "scan", args |-> <<>>])

\* findOperation returns err; captured and mem are the callback's variables
\* and the caller's jsonCmd at that point
FindReturn(err, captured, mem) ==
    /\ ret' = FindEpilogue(call, err, captured)
    /\ cl' = captured
    /\ found' = mem
    /\ hist' = Append(hist, index)
    /\ fr' = ZeroFrame
    /\ pc' = "done"
    /\ UNCHANGED <<index, tmp, files, dirs, call, out, app, stale, res, rd, ap>>

\* os.Open(indexFp)
FindOpen ==
    /\ pc = "find_open"
    /\ IF ~index.exists
       THEN FindReturn(ErrNotExist, cl, found) /\ UNCHANGED log
       ELSE /\ pc' = "find_token"
            /\ UNCHANGED <<index, tmp, files, dirs, call, fr, cl, ret, out, found, res, rd, ap, hist,
                           log, app, stale>>

\* mutant of FindTokenRead: the first token is not looked at
FindTokenAny(t) ==
    /\ fr' = [fr EXCEPT !.pos = t.next]
    /\ pc' = "find_loop"
    /\ UNCHANGED <<index, tmp, files, dirs, call, cl, ret, out, found, res, rd, ap, hist, log, app, stale>>

\* findOperation after dec.Token gave t
FindTokenRead(t) ==
    IF t.kind /= "["
    THEN FindReturn(TokenErr(t), cl, found) /\ UNCHANGED log
    ELSE /\ fr' = [fr EXCEPT !.pos = t.next]
         /\ pc' = "find_loop"
         /\ UNCHANGED <<index, tmp, files, dirs, call, cl, ret, out, found, res, rd, ap, hist, log,
                        app, stale>>

\* the first token
FindToken == pc = "find_token" /\ FindTokenRead(Token(index.data))

\* mutant of FindOutcome: esc is not looked at
FindOutcomeEscIgnored(r) == IF r.err /= Nil THEN "err" ELSE "go"

\* what findOperation does with the callback's answer
FindOutcome(r) == IF r.err /= Nil THEN "err" ELSE IF r.esc THEN "esc" ELSE "go"

\* the rest of a turn of the loop: the callback answered r for the record
\* decoded as d
FindLoopAnswer(d, r, o) ==
    /\ log' = Append(log, [cmd |-> d.cmd, esc |-> r.esc, err |-> r.err])
    /\ IF o = "err" THEN FindReturn(r.err, r.cl, r.mem)
       ELSE IF o = "esc" THEN FindReturn(Nil, r.cl, r.mem)
       ELSE /\ fr' = [fr EXCEPT !.pos = d.next, !.first = FALSE]
            /\ cl' = r.cl
            /\ found' = r.mem
            /\ UNCHANGED <<index, tmp, files, dirs, pc, call, ret, out, hist, app, stale,
                           res, rd, ap>>

\* the callback is called with the record decoded as d and answers r
FindLoopCall(d, r) == FindLoopAnswer(d, r, FindOutcome(r))

\* a turn of the loop after dec.Decode gave d
FindLoopDecoded(d) ==
    IF ~d.ok
    THEN FindReturn(ErrDecode, cl, found) /\ UNCHANGED log
    ELSE \E answer \in FindAnswers(call) :
           FindLoopCall(d, CallFind(call, answer, d.cmd, cl, found))

\* one turn of the loop of findOperation
FindLoop ==
    /\ pc = "find_loop"
    /\ IF ~More(index.data, fr.pos)
       THEN FindReturn(Nil, cl, found) /\ UNCHANGED log
       ELSE FindLoopDecoded(Decode(index.data, fr.pos, fr.first))

\* a system call of findOperation fails: opening or reading the index
FindIOFail ==
    /\ pc \in FindPcs
    /\ index.exists
    /\ FindReturn(ErrIO, cl, found)
    /\ UNCHANGED log

(***************************************************************************)
(* A second process that reads the index through findOperation, step by    *)
(* step, with a callback that keeps every record it is handed.             *)
(***************************************************************************)
\* the bytes of the file the reader has open: those of the index, unless a
\* rename replaced the index since the reader opened it
RdData(r, idx) == IF r.orphan THEN r.old ELSE idx.data

\* the reader returns err
RdReturn(err) ==
    /\ rd' = [rd EXCEPT !.pc = "done", !.ret = err]
    /\ UNCHANGED <<index, tmp, files, dirs, pc, call, fr, cl, ret, out, found, res, hist, log,
                   app, stale, ap>>

\* the reader goes on to the step at, having read up to next and seen recs
RdGoOn(at, next, isFirst, recs) ==
    /\ rd' = [rd EXCEPT !.pc = at, !.pos = next, !.first = isFirst, !.seen = recs]
    /\ UNCHANGED <<index, tmp, files, dirs, pc, call, fr, cl, ret, out, found, res, hist, log,
                   app, stale, ap>>

\* os.Open(indexFp) of the reader
RdOpen ==
    /\ rd.pc = "idle"
    /\ IF ~index.exists THEN RdReturn(ErrNotExist) ELSE RdGoOn("token", 1, TRUE, <<>>)

\* the reader after dec.Token gave t
RdTokenRead(t) ==
    IF t.kind /= "[" THEN RdReturn(TokenErr(t)) ELSE RdGoOn("loop", t.next, TRUE, <<>>)

\* the first token of the reader
RdToken == rd.pc = "token" /\ RdTokenRead(Token(RdData(rd, index)))

\* a turn of the reader's loop after dec.Decode gave d
RdLoopDecoded(d) ==
    IF ~d.ok THEN RdReturn(ErrDecode) ELSE RdGoOn("loop", d.next, FALSE, Append(rd.seen, d.cmd))

\* one turn of the loop of the reader's findOperation
RdLoop ==
    /\ rd.pc = "loop"
    /\ IF ~More(RdData(rd, index), rd.pos)
       THEN RdReturn(Nil)
       ELSE RdLoopDecoded(Decode(RdData(rd, index), rd.pos, rd.first))

RdStep == RdOpen \/ RdToken \/ RdLoop

(***************************************************************************)
(* appendToIndex, system call by system call, in two processes at once.    *)
(***************************************************************************)
\* file.Read(buf) at the offset off of a file holding data: at most n bytes
ReadAt(data, off, n) ==
    IF off >= Len(data) THEN ""
    ELSE SubSeq(data, off + 1, IF off + n < Len(data) THEN off + n ELSE Len(data))

\* mutant of Patched: the bytes are worked out anew from the file as it is
\* when they are written
PatchedFresh(data, p) == appendToIndex(data, p.raw).data

\* file.Write / file.WriteAt of the bytes the process p made up
Patched(data, p) == WriteAt(data, p.bytes, p.off)

\* the process i goes on as p, the index file is idx
ApGoOn(i, p, idx, race) ==
    /\ ap' = [ap EXCEPT !.p[i] = p, !.raced = race]
    /\ index' = idx
    /\ UNCHANGED <<tmp, files, dirs, pc, call, fr, cl, ret, out, found, res, rd, hist, log, app,
                   stale>>

\* os.OpenFile(indexFp, O_RDWR|O_CREATE) and file.Stat(): a file of at most
\* 3 bytes is written from its start
ApStat(i) ==
    /\ ap.p[i].pc = "stat"
    /\ ApGoOn(i,
              IF Len(index.data) <= EmptySize
              THEN [ap.p[i] EXCEPT !.pc = "write", !.size = Len(index.data), !.off = 0,
                                   !.bytes = "[" \o ap.p[i].raw \o "]"]
              ELSE [ap.p[i] EXCEPT !.pc = "read", !.size = Len(index.data)],
              [index EXCEPT !.exists = TRUE], ap.raced)

\* appendToIndex after file.Read gave buf from the offset off
ApScanned(i, off, buf, end) ==
    ApGoOn(i,
           IF end = -1 THEN [ap.p[i] EXCEPT !.pc = "done", !.err = ErrFormat]
           ELSE [ap.p[i] EXCEPT !.pc = "write", !.off = off,
                                !.bytes = Take(buf, end) \o "," \o ap.p[i].raw \o "]"],
           index, ap.raced)

\* appendToIndex after file.Seek to the offset off
ApTail(i, off, buf) ==
    IF off < 0 THEN ApGoOn(i, [ap.p[i] EXCEPT !.pc = "done", !.err = ErrSeek], index, ap.raced)
    ELSE ApScanned(i, off, buf, IndexByte(buf, "]", 1))

\* file.Seek and file.Read of the tail, and the scan for the closing bracket
ApRead(i) ==
    /\ ap.p[i].pc = "read"
    /\ ApTail(i, ap.p[i].size - TailWindow,
              ReadAt(index.data, ap.p[i].size - TailWindow,
                     TailWindow + Len(ap.p[i].raw) + 1))

\* file.Write / file.WriteAt
ApWrite(i) ==
    /\ ap.p[i].pc = "write"
    /\ ApGoOn(i, [ap.p[i] EXCEPT !.pc = "done", !.err = Nil],
              [index EXCEPT !.data = Patched(index.data, ap.p[i])],
              ap.raced \/ \A j \in 1..Len(ap.p) : ap.p[j].pc = "write")

ApStep(i) == ApStat(i) \/ ApRead(i) \/ ApWrite(i)

(***************************************************************************)
(* getCommand of src/main.go and what it calls: findInIndex and            *)
(* invalidArgsError.                                                       *)
(***************************************************************************)
RECURSIVE findInIndexLoop(_, _, _, _)
RECURSIVE findInIndexDecoded(_, _, _)

\* findInIndex after dec.Decode gave d: a record of the name is copied to
\* the caller's jsonCmd and ends the loop
findInIndexDecoded(s, d, name) ==
    IF ~d.ok THEN [err |-> ErrDecode, cmd |-> ZeroCmd]
    ELSE IF d.cmd.Name = name THEN [err |-> Nil, cmd |-> d.cmd]
    ELSE findInIndexLoop(s, d.next, FALSE, name)

\* the loop of findInIndex from the position i of the bytes s
findInIndexLoop(s, i, first, name) ==
    IF ~More(s, i) THEN [err |-> CmdNotFoundErr, cmd |-> ZeroCmd]
    ELSE findInIndexDecoded(s, Decode(s, i, first), name)

\* findInIndex after dec.Token gave t
findInIndexToken(s, t, name) ==
    IF t.kind /= "[" THEN [err |-> TokenErr(t), cmd |-> ZeroCmd]
    ELSE findInIndexLoop(s, t.next, TRUE, name)

\* findInIndex(indexFp, name, &cmd) with cmd the zero jsonCmd: the error and
\* cmd afterwards; ioFail says that opening or reading the file fails
findInIndex(f, name, ioFail) ==
    IF ~f.exists THEN [err |-> ErrNotExist, cmd |-> ZeroCmd]
    ELSE IF ioFail THEN [err |-> ErrIO, cmd |-> ZeroCmd]
    ELSE findInIndexToken(f.data, Token(f.data), name)

\* the message of invalidArgsError once it chose the words s and the number n
ArgsMessage(cmd, s, n) ==
    Quote(cmd.Name) \o " expects " \o s \o " " \o Itoa(n) \o " argument"
      \o (IF n = 1 \/ n = -1 THEN "" ELSE "s") \o "."

\* invalidArgsError(&cmd, argsLen): the text of the error; %q of a name
\* quotes it as Quote does
invalidArgsError(cmd, argsLen) ==
    IF argsLen > cmd.Meta.MaxNumArgs
    THEN ArgsMessage(cmd, "at most", cmd.Meta.MaxNumArgs)
    ELSE ArgsMessage(cmd, "at least", cmd.Meta.MinNumArgs)

\* the bytes in the order of their values, for the order of os.ReadDir
Bytes == " \"-./0123456789:[\\]_abcdefghijklmnopqrstuvwxyz{}"

RECURSIVE NameLess(_, _, _)
\* a sorts before b, both compared from byte i on
NameLess(a, b, i) ==
    IF i > Len(b) THEN FALSE
    ELSE IF i > Len(a) THEN TRUE
    ELSE IF Ch(a, i) = Ch(b, i) THEN NameLess(a, b, i + 1)
    ELSE IndexByte(Bytes, Ch(a, i), 1) < IndexByte(Bytes, Ch(b, i), 1)

\* the entries of os.ReadDir(dirpath) that are no directories
FileEntries(idx, t, fs) ==
    {Base(f) : f \in {g \in fs : Dir(g) = ScriptDp}}
      \cup (IF idx.exists THEN {INDEX_FILE} ELSE {})
      \cup (IF t.exists THEN {INDEX_FILE \o ".tmp"} ELSE {})

\* the entries whose name without its extension is name
Matches(entries, name) == {e \in entries : Take(e, Len(e) - Len(Ext(e))) = name}

\* mutant of accepts: -1 is a maximum like any other
acceptsBounded(checks, n) == checks.MinNumArgs <= n /\ n <= checks.MaxNumArgs

\* the test of getCommand on the bounds of the record: -1 allows any number
accepts(checks, n) ==
    ~(~(checks.MinNumArgs <= n) \/ (checks.MaxNumArgs /= -1 /\ ~(n <= checks.MaxNumArgs)))

\* mutant of fallback: the directory is not looked at
fallbackNone(args, dirFail, ms) == [err |-> CmdNotFoundErr, res |-> NoResult]

\* getCommand after findInIndex found no record: the first entry of the
\* directory, in the order of the names, that is a file named as asked; ms
\* are the entries so named
fallback(args, dirFail, ms) ==
    IF ScriptDp \notin dirs THEN [err |-> ErrNotExist, res |-> NoResult]
    ELSE IF dirFail THEN [err |-> ErrIO, res |-> NoResult]
    ELSE IF ms = {} THEN [err |-> CmdNotFoundErr, res |-> NoResult]
    ELSE [err |-> Nil,
          res |-> [args EXCEPT ![1] = Join(ScriptDp,
                     CHOOSE e \in ms : \A o \in ms \ {e} : NameLess(e, o, 1))]]

\* getCommand(dirpath, args, indexFp) after findInIndex gave fi
getCommand(args, fi, dirFail) ==
    IF fi.err = Nil
    THEN IF ~accepts(fi.cmd.Meta, Len(args) - 1)
         THEN [err |-> invalidArgsError(fi.cmd, Len(args) - 1), res |-> NoResult]
         ELSE [err |-> Nil, res |-> [args EXCEPT ![1] = fi.cmd.Script]]
    ELSE IF fi.err /= CmdNotFoundErr THEN [err |-> fi.err, res |-> NoResult]
    ELSE fallback(args, dirFail, Matches(FileEntries(index, tmp, files), args[1]))

\* getCommand returned g; fi is what findInIndex left in cmd
GetReturn(args, fi, g) ==
    /\ found' = fi.cmd
    /\ ret' = g.err
    /\ res' = g.res
    /\ call' = [op |-> "run", args |-> args]
    /\ hist' = <<index, index>>
    /\ pc' = "done"
    /\ UNCHANGED <<index, tmp, files, dirs, fr, cl, out, rd, ap, log, app, stale>>

\* Run of an external command: getCommand resolves args, the name and the
\* arguments of the script; io says which system call fails, if any
GetCommand(args) ==
    /\ pc = "idle"
    /\ \E io \in {"none", "index", "dir"} :
         GetReturn(args, findInIndex(index, args[1], io = "index"),
                   getCommand(args, findInIndex(index, args[1], io = "index"), io = "dir"))

(***************************************************************************)
(* Spec: the commands in any order, from an index that is missing, empty   *)
(* or damaged.                                                             *)
(***************************************************************************)
InitFiles == {"/s/a.sh", "/t/a.sh", "/w/x.sh"}
InitDirs == {"/", "/s", "/t", "/w"}

InitIndexes ==
    {Absent, File(""), File("[]"), File("[]\n"), File("{}"), File("[{\"commandName\":"),
     File("\"cmds\"")}

Rest(idx, ds) ==
    /\ index = idx
    /\ tmp = Absent
    /\ files = InitFiles
    /\ dirs = ds
    /\ pc = "idle"
    /\ call = NoCall
    /\ fr = ZeroFrame
    /\ cl = ZeroClosure
    /\ ret = NoReturn
    /\ out = {}
    /\ found = ZeroCmd
    /\ res = NoResult
    /\ rd = RdIdle
    /\ ap = ApIdle
    /\ hist = <<>>
    /\ log = <<>>
    /\ app = AppAfter(idx)
    /\ stale = FALSE

Init ==
    \E idx \in InitIndexes, made \in BOOLEAN :
        /\ idx.exists => made
        /\ Rest(idx, IF made THEN InitDirs \cup Ancestors(ScriptDp) ELSE InitDirs)

CreateArgs ==
    { <<"a", "/s/a.sh">>, <<"b\"", "x.sh", "1", "2">>,
      <<"a", "/s/a.sh", "x">>, <<"a">>, <<"c", "/s/none.sh">> }

ModifyArgs ==
    { <<"a", "_">>, <<"a", "b\"", "x.sh", "1", "2">>, <<"a", "_", "_", "z">>,
      <<"a">>, <<"zz", "_", "_", "_", "_">> }

DeleteArgs == { <<"a">>, <<"b\"", "zz">>, <<>> }

\* the number of records the index holds
Count(idx) == Len(ParseIndex(idx.data).cmds)

ModStep == ModOpen \/ ModToken \/ ModLoop \/ ModRename \/ ModIOFail

FindNames == {"a", "b\"", "zz"}

FindStep == FindOpen \/ FindToken \/ FindLoop \/ FindIOFail

Next ==
    \/ SetUp
    \/ Count(index) < MaxRecords /\ \E a \in CreateArgs : CreateCmd(a)
    \/ \E a \in ModifyArgs : ModifyCmd(a)
    \/ \E a \in DeleteArgs : DeleteCmd(a)
    \/ TidyCmd
    \/ Rewrite
    \/ ModStep
    \/ \E n \in FindNames : Find(n)
    \/ ListCmd
    \/ FindStep
    \/ Exit

Spec == Init /\ [][Next]_vars

(***************************************************************************)
(* SpecCall and SpecModify: one command, run up to MaxRuns times, on an    *)
(* index that CreateCmd built or that the program did not write.           *)
(***************************************************************************)
PoolArgs == { <<"a", "/s/a.sh">>, <<"b\"", "x.sh", "1", "2">> }

RECURSIVE PoolIndex(_, _, _)
\* the bytes of the index after CreateCmd ran on each of as in turn
PoolIndex(as, i, data) ==
    IF i > Len(as) THEN data
    ELSE PoolIndex(as, i + 1, appendToIndex(data, Marshal(parseCmd(as[i], NewCmd).cmd)).data)

Pool == UNION {[1..n -> PoolArgs] : n \in 0..MaxPool}

\* index files the program did not write: a valid one with a newline, one
\* that is no array, one that is cut off
OtherIndexes == {File("[]\n"), File("{}"), File("[{\"commandName\":")}

InitCall ==
    \E idx \in {File(PoolIndex(as, 1, "[]")) : as \in Pool} \cup OtherIndexes :
        Rest(idx, InitDirs \cup Ancestors(ScriptDp))

\* the update values of -mod: each is the keep token or a new value
NewValues == <<"d", "y.sh", "3", "4">>
Updates ==
    {u \in [1..4 -> {"_", "d", "y.sh", "3", "4"}] : \A i \in 1..4 : u[i] \in {"_", NewValues[i]}}
      \cup { <<"_">>, <<"d">>, <<"_", "y.sh">>, <<"d", "_", "3">>, <<"_", "_", "_">> }

CallModifyArgs ==
    {<<"a">> \o u : u \in Updates}
      \cup { <<"b\"", "_", "_", "_", "4">>, <<"zz", "_">>, <<"a", "_", "_", "z">>,
             <<"a", "_", "_", "_", "-">> }

CallDeleteArgs ==
    { <<"a">>, <<"b\"">>, <<"zz">>, <<"a", "b\"">>, <<"a", "zz">>, <<"a", "a">> }

NextCall ==
    \/ \E a \in CallDeleteArgs : DeleteCmd(a)
    \/ TidyCmd
    \/ Rewrite
    \/ ModStep
    \/ Crash
    \/ Rerun

SpecCall == InitCall /\ [][NextCall]_vars

NextModify ==
    \/ \E a \in CallModifyArgs : ModifyCmd(a)
    \/ ModStep
    \/ Rerun

SpecModify == InitCall /\ [][NextModify]_vars

(***************************************************************************)
(* SpecFind: one call of the Finder on an index that CreateCmd built, with *)
(* records of the same name, or that the program did not write.            *)
(***************************************************************************)
FindPoolArgs == { <<"a", "/s/a.sh">>, <<"a", "/t/a.sh", "1", "2">>, <<"b\"", "x.sh">> }

FindPool == UNION {[1..n -> FindPoolArgs] : n \in 0..MaxPool}

\* index files the program did not write whose first token is no bracket, and
\* one that ends after its first record
ForeignIndexes ==
    OtherIndexes \cup {File(""), File("\"cmds\""), File("7"),
                       File("[" \o Marshal(jsonCmd("a", "/s/a.sh", 0, -1)))}

InitFind ==
    \E idx \in {File(PoolIndex(as, 1, "[]")) : as \in FindPool} \cup ForeignIndexes \cup {Absent} :
        Rest(idx, InitDirs \cup Ancestors(ScriptDp))

NextFind ==
    \/ \E n \in FindNames : Find(n)
    \/ ListCmd
    \/ Scan
    \/ FindStep

SpecFind == InitFind /\ [][NextFind]_vars

(***************************************************************************)
(* SpecAppend: one CreateCmd on an index file with bytes after its end: an *)
(* array, empty or not, or a file that holds no closing bracket.           *)
(***************************************************************************)
RECURSIVE Pad(_, _)
\* k times the byte c
Pad(c, k) == IF k = 0 THEN "" ELSE c \o Pad(c, k - 1)

AppendBases ==
    {"[]", "[" \o Marshal(jsonCmd("a", "/s/a.sh", 0, -1)) \o "]", "{}",
     "[" \o Marshal(jsonCmd("a", "/s/a.sh", 0, -1))}

AppendIndexes == {File(b \o Pad(c, k)) : b \in AppendBases, c \in {"\n", " "}, k \in 0..MaxPad}

InitAppend == \E idx \in AppendIndexes : Rest(idx, InitDirs \cup Ancestors(ScriptDp))

NextAppend == \E a \in PoolArgs : CreateCmd(a)

SpecAppend == InitAppend /\ [][NextAppend]_vars

(***************************************************************************)
(* SpecTidy: one TidyCmd on an index whose scripts lie in other            *)
(* directories under equal and different file names, in the managed        *)
(* directory and below it, with or without a file of the same name in the  *)
(* managed directory.                                                      *)
(***************************************************************************)
TidyArgs ==
    { <<"a", "/s/a.sh">>, <<"c", "/t/a.sh">>, <<"x", "/w/x.sh">>, <<"k", "/r/k.sh">>,
      <<"u", "/r/sub/u.sh">> }

TidyPool ==
    {as \in UNION {[1..n -> TidyArgs] : n \in 0..MaxRecords} :
        \A i, j \in 1..Len(as) : i /= j => as[i] /= as[j]}

\* the scripts of the records, which CreateCmd found on disk
TidyFiles == {a[2] : a \in TidyArgs}

\* the directories of the scripts, and those a collision's new path names
TidyDirs == InitDirs \cup Ancestors(ScriptDp) \cup {"/r/sub"}

InitTidy ==
    \E as \in TidyPool, taken \in SUBSET {"/r/a.sh"}, below \in SUBSET {"/r/s", "/r/t"} :
        /\ index = File(PoolIndex(as, 1, "[]"))
        /\ tmp = Absent
        /\ files = TidyFiles \cup taken
        /\ dirs = TidyDirs \cup below
        /\ pc = "idle"
        /\ call = NoCall
        /\ fr = ZeroFrame
        /\ cl = ZeroClosure
        /\ ret = NoReturn
        /\ out = {}
        /\ found = ZeroCmd
        /\ res = NoResult
        /\ rd = RdIdle
        /\ ap = ApIdle
        /\ hist = <<>>
        /\ log = <<>>
        /\ app = AppAfter(index)
        /\ stale = FALSE

NextTidy == TidyCmd \/ ModStep

SpecTidy == InitTidy /\ [][NextTidy]_vars

(***************************************************************************)
(* SpecBounds: CreateCmd and ModifyCmd, one after the other from an empty  *)
(* index, with argument-count bounds of every kind: none, in order, a      *)
(* negative minimum, a maximum below the minimum, a maximum below -1.      *)
(***************************************************************************)
BoundsCreateArgs ==
    { <<"a", "/s/a.sh">>, <<"a", "/s/a.sh", "1", "2">>, <<"a", "/s/a.sh", "-1", "0">>,
      <<"b\"", "x.sh", "2", "1">>, <<"b\"", "x.sh", "0", "-2">>, <<"b\"", "x.sh", "1">> }

BoundsModifyArgs ==
    { <<"a", "_", "_", "3">>, <<"a", "_", "_", "_", "0">>, <<"a", "_", "_", "-2">>,
      <<"b\"", "d", "_", "0", "4">> }

InitBounds == Rest(File("[]"), InitDirs \cup Ancestors(ScriptDp))

NextBounds ==
    \/ Count(index) < MaxRecords /\ \E a \in BoundsCreateArgs : CreateCmd(a)
    \/ \E a \in BoundsModifyArgs : ModifyCmd(a)
    \/ ModStep
    \/ Exit

SpecBounds == InitBounds /\ [][NextBounds]_vars

(***************************************************************************)
(* SpecRun: one call of getCommand, with 0 to MaxArgs arguments for the    *)
(* script, on an index of records with bounds of every kind or on a        *)
(* damaged or missing one, with or without files of the name in the        *)
(* managed directory.                                                      *)
(***************************************************************************)
RunPoolArgs ==
    { <<"a", "/s/a.sh">>, <<"a", "/t/a.sh", "1", "2">>, <<"b\"", "x.sh", "2">>,
      <<"k", "/w/x.sh", "0", "0">> }

RunPool == UNION {[1..n -> RunPoolArgs] : n \in 0..MaxRecords}

RunNames == {"a", "b\"", "k", "zz", "sub", "cmd_mappings"}

RunArgs == { <<n>> \o SubSeq(<<"x", "y", "z", "w", "v">>, 1, k) : n \in RunNames, k \in 0..MaxArgs }

InitRun ==
    \E idx \in {File(PoolIndex(as, 1, "[]")) : as \in RunPool} \cup ForeignIndexes \cup {Absent},
       inDir \in SUBSET {"/r/zz.sh", "/r/zz.py"} :
        /\ index = idx
        /\ tmp = Absent
        /\ files = InitFiles \cup inDir
        /\ dirs = InitDirs \cup Ancestors(ScriptDp) \cup {"/r/sub"}
        /\ pc = "idle"
        /\ call = NoCall
        /\ fr = ZeroFrame
        /\ cl = ZeroClosure
        /\ ret = NoReturn
        /\ out = {}
        /\ found = ZeroCmd
        /\ res = NoResult
        /\ rd = RdIdle
        /\ ap = ApIdle
        /\ hist = <<>>
        /\ log = <<>>
        /\ app = AppAfter(index)
        /\ stale = FALSE

NextRun == \E a \in RunArgs : GetCommand(a)

SpecRun == InitRun /\ [][NextRun]_vars

(***************************************************************************)
(* SpecRead: one call of a command that rewrites the index, and the reader *)
(* at any point of it.                                                     *)
(***************************************************************************)
ReadPool == UNION {[1..n -> PoolArgs] : n \in 0..MaxRecords}

InitRead ==
    \E idx \in {File(PoolIndex(as, 1, "[]")) : as \in ReadPool} \cup OtherIndexes :
        Rest(idx, InitDirs \cup Ancestors(ScriptDp))

NextRead ==
    \/ \E a \in CallDeleteArgs : DeleteCmd(a)
    \/ \E a \in { <<"a", "d">>, <<"b\"", "_", "_", "3">> } : ModifyCmd(a)
    \/ TidyCmd
    \/ Rewrite
    \/ ModStep
    \/ Crash
    \/ RdStep

SpecRead == InitRead /\ [][NextRead]_vars

(***************************************************************************)
(* SpecRace: two calls of appendToIndex at once on an index the program    *)
(* wrote, with records of the same and of different lengths.               *)
(***************************************************************************)
RaceRaws ==
    {Marshal(parseCmd(a, NewCmd).cmd) :
        a \in { <<"c", "/s/a.sh">>, <<"d", "/t/a.sh">>, <<"e", "x.sh", "1", "10">>, <<"f", "/">> }}

InitRace ==
    \E idx \in {File(PoolIndex(as, 1, "[]")) : as \in ReadPool} \cup {File("[]\n"), File("")},
       r1 \in RaceRaws, r2 \in RaceRaws :
        /\ index = idx
        /\ tmp = Absent
        /\ files = InitFiles
        /\ dirs = InitDirs \cup Ancestors(ScriptDp)
        /\ pc = "idle"
        /\ call = NoCall
        /\ fr = ZeroFrame
        /\ cl = ZeroClosure
        /\ ret = NoReturn
        /\ out = {}
        /\ found = ZeroCmd
        /\ res = NoResult
        /\ rd = RdIdle
        /\ ap = [p |-> <<ApProc(r1), ApProc(r2)>>, start |-> idx.data, raced |-> FALSE]
        /\ hist = <<>>
        /\ log = <<>>
        /\ app = AppAfter(index)
        /\ stale = FALSE

NextRace == \E i \in {1, 2} : ApStep(i)

SpecRace == InitRace /\ [][NextRace]_vars

(***************************************************************************)
(* The properties.                                                         *)
(***************************************************************************)
\* the index file as it was before the run in progress, or before the run
\* that just ended
Before == IF pc = "done" THEN hist[Len(hist) - 1] ELSE hist[Len(hist)]

Valid(f) == f.exists /\ ParseIndex(f.data).ok

Cmds(f) == ParseIndex(f.data).cmds

Names(f) == {Cmds(f)[i].Name : i \in 1..Len(Cmds(f))}

\* a modOperation ran and ended, by a return or by a crash
ModDone == pc = "done" /\ call.op \in ModOps /\ fr.opened

\* the run ended by a return of modOperation that no failing system call and
\* no crash forced
Returned == ModDone /\ ret \notin {Crashed, ErrIO, ErrOpenTmp}

RECURSIVE JoinRaws(_, _)
JoinRaws(raws, i) ==
    IF i > Len(raws) THEN ""
    ELSE raws[i] \o (IF i < Len(raws) THEN "," ELSE "") \o JoinRaws(raws, i + 1)

\* the records the callback included, as it left them
Included == SelectSeq(log, LAMBDA e : e.inc)

\* the complete array of the included records
Reencoded == "[" \o JoinRaws([i \in 1..Len(Included) |-> Marshal(Included[i].new)], 1) \o "]"

\* C1: from an index file that is empty or holds [], after successful appends
\* of r1..rn the file decodes to exactly r1..rn, in that order.
C1_AppendsInOrder ==
    (app.only /\ app.raws /= <<>>) =>
        /\ index.data = "[" \o JoinRaws(app.raws, 1) \o "]"
        /\ ParseIndex(index.data) =
             [ok |-> TRUE, cmds |-> [i \in 1..Len(app.raws) |-> ReadCmd(app.raws[i], 1).cmd]]
        /\ \A i \in 1..Len(app.raws) :
             LET d == ReadCmd(app.raws[i], 1) IN d.ok /\ d.next = Len(app.raws[i]) + 1

C1_Witness ==
    /\ app.only /\ Len(app.raws) = 2 /\ app.raws[1] /= app.raws[2]
    /\ pc = "done" /\ call.op = "create" /\ ret = Nil
    /\ Len(Cmds(index)) = 2

C3_Unchanged ==
    call.op \in ModOps =>
        \/ index = Before
        \/ /\ pc = "done" /\ ret \in {Nil, CmdNotFoundErr}
           /\ index.data = Reencoded /\ Valid(index)

C3_RenameCommits ==
    /\ []C3_Unchanged
    /\ [][index' /= index => (pc = "mod_rename" /\ index' = File(tmp.data))]_vars

C3_Witness ==
    /\ pc = "done" /\ ret = Crashed /\ call.op = "delete"
    /\ tmp.exists /\ Len(tmp.data) > 2 /\ tmp.data /= index.data
    /\ index = Before /\ Len(Cmds(index)) = 3

\* C4: a callback error on any record ends modOperation at once: no later
\* record is handed to the callback, the error is returned and the index is
\* as before the call.
C4_ErrorAborts ==
    \A i \in 1..Len(log) :
        log[i].err /= Nil =>
            /\ i = Len(log)
            /\ pc = "done"
            /\ ret = log[i].err
            /\ index = Before
            /\ ~tmp.exists

C4_Witness ==
    /\ pc = "done" /\ call.op = "rewrite" /\ Len(Cmds(Before)) = 3
    /\ Len(log) = 2 /\ log[1].inc /\ log[2].err = ErrCallback /\ ret = ErrCallback

\* C5: once modOperation returned, by whatever path, no temp file exists; a
\* temp file exists only during a run (or where a crash left it).
C5_NoTempLeft ==
    /\ (ModDone /\ ret /= Crashed) => ~tmp.exists
    /\ tmp.exists => (pc \in ModPcs \/ stale)

C5_Witness ==
    /\ ModDone /\ ret = ErrDecode /\ ~tmp.exists /\ Len(hist) = 3 /\ Len(log) = 0
    /\ Before = File("[{\"commandName\":")

\* C6: when the callback signals esc, modOperation returns nil, the index is
\* as before the call and the temp file is gone.
C6_EscapeAborts ==
    \A i \in 1..Len(log) :
        (log[i].esc /\ log[i].err = Nil) =>
            /\ i = Len(log)
            /\ pc = "done"
            /\ ret = Nil
            /\ index = Before
            /\ ~tmp.exists

C6_Witness ==
    /\ pc = "done" /\ call.op = "rewrite" /\ Len(Cmds(Before)) = 3
    /\ Len(log) = 3 /\ log[1].inc /\ ~log[2].inc /\ log[3].esc /\ ret = Nil

\* the callback kept every record it was handed
AllKept == \A i \in 1..Len(log) : log[i].inc /\ ~log[i].esc /\ log[i].err = Nil

\* C7: modOperation with a callback that includes every record and changes
\* none leaves the decoded content of a valid index as it was.
C7_RoundTrip ==
    (Returned /\ call.op = "rewrite" /\ AllKept /\ Valid(Before)) =>
        /\ ret = Nil
        /\ Len(log) = Len(Cmds(Before))
        /\ ParseIndex(index.data) = ParseIndex(Before.data)

C7_Witness ==
    /\ Returned /\ call.op = "rewrite" /\ AllKept
    /\ Len(Cmds(index)) = 3 /\ Cmds(index)[2].Name = "b\"" /\ Cmds(index)[3].Name = "a"

\* C8: DeleteCmd removes exactly the records whose name is among its
\* arguments and keeps the others in their order; a name that matches no
\* record is printed as non-existent and is no error.
C8_DeleteExactly ==
    (Returned /\ call.op = "delete" /\ Valid(Before)) =>
        /\ ret = Nil
        /\ Valid(index)
        /\ Cmds(index) = SelectSeq(Cmds(Before), LAMBDA c : c.Name \notin Range(call.args))
        /\ out = Range(call.args) \ Names(Before)

C8_Witness ==
    /\ Returned /\ call.op = "delete" /\ call.args = <<"a", "zz">>
    /\ Len(Cmds(Before)) = 3 /\ Cmds(Before)[1].Name = "a" /\ Cmds(Before)[3].Name = "a"
    /\ Len(Cmds(index)) = 1 /\ out = {"zz"} /\ ret = Nil

\* the update value of field i of a -mod call is the keep token, or left out
Keeps(args, i) == Len(args) < i + 1 \/ args[i + 1] = "_"

\* the record -mod is to make of a record named as its target
Updated(args, c) ==
    jsonCmd(IF Keeps(args, 1) THEN c.Name ELSE args[2],
            IF Keeps(args, 2) THEN c.Script ELSE Abs(args[3]),
            IF Keeps(args, 3) THEN c.Meta.MinNumArgs ELSE Atoi(args[4]).val,
            IF Keeps(args, 4) THEN c.Meta.MaxNumArgs ELSE Atoi(args[5]).val)

\* C9: ModifyCmd replaces, in each record of the target name, the fields
\* whose update value is not the keep token and no other field; the other
\* records, the number and the order of the records stay.
C9_ModifyFields ==
    (Returned /\ call.op = "modify" /\ ret \in {Nil, CmdNotFoundErr} /\ Valid(Before)) =>
        /\ Valid(index)
        /\ Cmds(index) = [i \in 1..Len(Cmds(Before)) |->
                            LET c == Cmds(Before)[i] IN
                            IF c.Name = call.args[1] THEN Updated(call.args, c) ELSE c]

C9_Witness ==
    /\ Returned /\ call.op = "modify" /\ ret = Nil
    /\ call.args = <<"a", "_", "y.sh", "_", "4">>
    /\ Len(Cmds(Before)) = 3 /\ Cmds(Before)[2].Name = "b\""
    /\ Cmds(index)[1] = jsonCmd("a", "/w/y.sh", 0, 4)
    /\ Cmds(index)[2] = Cmds(Before)[2]
    /\ Cmds(index)[3] = jsonCmd("a", "/w/y.sh", 0, 4)

AllKeep(args) == \A i \in 1..4 : Keeps(args, i)

\* C10: ModifyCmd with the keep token for every update value leaves the
\* decoded records of a valid index as they were, also when it is run twice.
C10_KeepIsNoOp ==
    (Returned /\ call.op = "modify" /\ AllKeep(call.args) /\ Valid(hist[1])) =>
        /\ ret \in {Nil, CmdNotFoundErr}
        /\ \A i \in 1..Len(hist) : ParseIndex(hist[i].data) = ParseIndex(hist[1].data)

C10_Witness ==
    /\ Returned /\ call.op = "modify" /\ call.args = <<"a", "_", "_", "_", "_">>
    /\ ret = Nil /\ Len(hist) = 3 /\ Len(Cmds(index)) = 3
    /\ Cmds(index)[1].Name = "a" /\ Cmds(index)[2].Name = "b\""

RECURSIVE StreamEnds(_, _, _)
\* the records of s from i on decode one after the other until none is left
StreamEnds(s, i, first) ==
    IF ~More(s, i) THEN TRUE
    ELSE LET d == Decode(s, i, first) IN d.ok /\ StreamEnds(s, d.next, FALSE)

\* the engines read f to the end of its stream of records
Streams(f) ==
    f.exists /\ Token(f.data).kind = "[" /\ StreamEnds(f.data, Token(f.data).next, TRUE)

\* C11: ModifyCmd returns CmdNotFoundErr exactly when the stream of records
\* completed and no record has the target name, and then the index decodes to
\* the records of before the call.
C11_NotFound ==
    (Returned /\ call.op = "modify") =>
        /\ ret = CmdNotFoundErr <=> (Streams(Before) /\ call.args[1] \notin Names(Before))
        /\ ret = CmdNotFoundErr => (Valid(index) /\ Cmds(index) = Cmds(Before))

C11_Witness ==
    /\ Returned /\ call.op = "modify" /\ ret = CmdNotFoundErr
    /\ call.args[1] = "zz" /\ Len(Cmds(index)) = 2 /\ Len(log) = 2

\* a call of the Finder ended by a return that no failing system call forced
Finished == pc = "done" /\ call.op \in FindOps /\ ret /= ErrIO

\* the first record of f named name, the zero record if there is none
FirstNamed(f, name) ==
    LET hits == SelectSeq(Cmds(f), LAMBDA c : c.Name = name)
    IN IF hits = <<>> THEN ZeroCmd ELSE hits[1]

\* C12: when Find returns no error, the jsonCmd its third argument points to
\* holds the first record of the requested name.
C12_FindHandsBack ==
    (Finished /\ call.op = "find" /\ ret = Nil) => found = FirstNamed(index, call.args[1])

\* C13: on a well-formed index Find returns CmdNotFoundErr exactly when no
\* record has the requested name and nil exactly when one has; CmdNotFoundErr
\* is none of the errors of the system calls and of the format.
C13_FindNotFound ==
    /\ CmdNotFoundErr \notin {Nil, ErrIO, ErrNotExist, ErrEOF, ErrFormat, ErrDecode}
    /\ (Finished /\ call.op = "find" /\ Valid(index)) =>
          /\ ret = CmdNotFoundErr <=> call.args[1] \notin Names(index)
          /\ ret = Nil <=> call.args[1] \in Names(index)
    /\ (Finished /\ call.op = "find" /\ ret = CmdNotFoundErr) =>
          (Streams(index) /\ ~cl.hit /\ \A i \in 1..Len(log) : ~log[i].esc)

C13_Witness ==
    /\ Finished /\ call.op = "find" /\ Valid(index) /\ Len(Cmds(index)) = 3
    /\ ret = CmdNotFoundErr /\ call.args[1] = "zz" /\ Len(log) = 3

\* C14: the Finder calls its callback on the records in file order, once
\* each, and not again after a call that signals escape or returns an error;
\* the callback's error is returned, an escape returns nil, and the index file
\* is as it was.
C14_FinderStops ==
    call.op \in FindOps =>
        /\ index = hist[1] /\ tmp = Absent
        /\ Len(log) <= Len(Cmds(index))
        /\ \A i \in 1..Len(log) : log[i].cmd = Cmds(index)[i]
        /\ \A i \in 1..(Len(log) - 1) : ~log[i].esc /\ log[i].err = Nil
        /\ (log /= <<>> /\ (log[Len(log)].esc \/ log[Len(log)].err /= Nil)) => pc = "done"
        /\ (Finished /\ log /= <<>> /\ log[Len(log)].err /= Nil) => ret = log[Len(log)].err
        /\ (Finished /\ log /= <<>> /\ log[Len(log)].err = Nil /\ log[Len(log)].esc) => ret = Nil

C14_Witness ==
    /\ Finished /\ call.op = "scan" /\ Len(Cmds(index)) = 3 /\ Len(log) = 2
    /\ log[2].esc /\ ret = Nil /\ log[1].cmd /= log[2].cmd

\* the index starts with a JSON token that is not the opening bracket
OtherToken(f) == f.exists /\ Token(f.data).kind = "other"

C15_NoCallback ==
    (call.op \in ModOps \cup FindOps /\ OtherToken(hist[1])) =>
        /\ log = <<>>
        /\ index = hist[1]
        /\ pc = "done" => (tmp = Absent /\ ret \in {ErrFormat, ErrIO, ErrOpenTmp, ErrUsage})

\* C15: when the first token of the index is not the opening bracket, the
\* Finder and the Rewriter return the format error, the callback is not called
\* and the index file is as it was.
C15_FormatError ==
    /\ []C15_NoCallback
    /\ [][((ModToken \/ FindToken) /\ OtherToken(index)) =>
            (ret' = ErrFormat /\ pc' = "done" /\ log' = <<>> /\ index' = index)]_vars

C15_Witness ==
    /\ pc = "done" /\ call.op = "rewrite" /\ fr.opened /\ ret = ErrFormat
    /\ index = File("\"cmds\"") /\ log = <<>> /\ tmp = Absent

\* CreateCmd got as far as appendToIndex on the index file f and returned
Appended ==
    /\ pc = "done" /\ call.op = "create" /\ hist[1].exists
    /\ parseCmd(call.args, NewCmd).err = Nil
    /\ parseCmd(call.args, NewCmd).cmd.Script \in files \cup dirs

\* the tail of the file that appendToIndex scans for the closing bracket
Window(data) == IF Len(data) >= TailWindow THEN From(data, Len(data) - TailWindow + 1) ELSE data

\* C16: on an index file of more than 3 bytes with no closing bracket in the
\* scanned tail, the append returns the format error and leaves the bytes of
\* the file as they were.
C16_NoBracket ==
    (Appended /\ Len(hist[1].data) > EmptySize /\ IndexByte(Window(hist[1].data), "]", 1) = -1) =>
        (ret = ErrFormat /\ index = hist[1])

\* the number of bytes of data after its last closing bracket
RECURSIVE Trailing(_, _)
Trailing(data, n) ==
    IF n >= Len(data) \/ Ch(data, Len(data) - n) = "]" THEN n ELSE Trailing(data, n + 1)

\* C17: on a valid array whose closing bracket is followed by at most 9 bytes
\* of white space, the append succeeds; the file then decodes to the records
\* of before followed by the new one, and its bytes before the closing
\* bracket are as they were.
C17_AppendsAfterTail ==
    (Appended /\ Valid(hist[1]) /\ Trailing(hist[1].data, 0) <= TailWindow - 1) =>
        /\ ret = Nil
        /\ Valid(index)
        /\ Cmds(index) = Append(Cmds(hist[1]), parseCmd(call.args, NewCmd).cmd)
        /\ LET n == Len(hist[1].data) - Trailing(hist[1].data, 0) - 1
           IN Take(index.data, n) = Take(hist[1].data, n)

\* TidyCmd returned nil: the index is committed
Tidied == pc = "done" /\ call.op = "tidy" /\ ret = Nil

\* the callback of TidyCmd moved the i-th record it was handed
Relocated(i) == log[i].new.Script /= log[i].cmd.Script

\* C18: a script whose file name is taken in the managed directory gets a
\* free name directly inside it: a move replaces no file, the records TidyCmd
\* moved lie directly in the managed directory under their new paths, and no
\* two records of the committed index have one script path.
C18_Collisions ==
    /\ [](Tidied =>
            /\ \A i \in 1..Len(log) :
                 Relocated(i) => /\ Dir(log[i].new.Script) = ScriptDp
                                 /\ log[i].new.Script \in files
                                 /\ Cmds(index)[i].Script = log[i].new.Script
            /\ \A i, j \in 1..Len(Cmds(index)) :
                 i /= j => Cmds(index)[i].Script /= Cmds(index)[j].Script)
    /\ [][(call.op = "tidy" /\ files' /= files) =>
              Cardinality(files') = Cardinality(files)]_vars

\* C19: after a rename of TidyCmd failed, the record keeps its old path, the
\* records after it are handed to the callback too, and the index is
\* committed: TidyCmd returns nil.
C19_RenameNonFatal ==
    (pc = "done" /\ call.op = "tidy" /\ \E i \in 1..Len(log) : log[i].err /= Nil) =>
        /\ ret = Nil
        /\ Len(log) = Len(Cmds(hist[1]))
        /\ Cmds(index) = [i \in 1..Len(log) |-> log[i].new]
        /\ \A i \in 1..Len(log) : log[i].err /= Nil => log[i].new = log[i].cmd

\* C20: after TidyCmd returned nil, the script of every record lies directly
\* in the managed directory, and a record the callback left alone is one whose
\* script lay directly in it before.
C20_AllInManagedDir ==
    Tidied =>
        /\ \A i \in 1..Len(Cmds(index)) : Dir(Cmds(index)[i].Script) = ScriptDp
        /\ \A i \in 1..Len(log) : ~Relocated(i) => Dir(log[i].cmd.Script) = ScriptDp

\* the argument-count bounds a record may have
BoundsOk(m) == m.MinNumArgs >= 0 /\ (m.MaxNumArgs = -1 \/ m.MaxNumArgs >= m.MinNumArgs)

\* C21: every record of the index has a minimum of at least 0 and a maximum
\* that is -1 or at least the minimum, and a CreateCmd whose arguments give
\* other bounds returns an error and leaves the index as it was.
C21_BoundsValid ==
    /\ Valid(index) => \A i \in 1..Len(Cmds(index)) : BoundsOk(Cmds(index)[i].Meta)
    /\ (pc = "done" /\ call.op = "create" /\ parseCmd(call.args, NewCmd).err = Nil
          /\ ~BoundsOk(parseCmd(call.args, NewCmd).cmd.Meta)) =>
         (ret /= Nil /\ index = hist[1])

\* C22: no two records of the index have the same name.
C22_UniqueNames ==
    Valid(index) =>
        \A i, j \in 1..Len(Cmds(index)) : i /= j => Cmds(index)[i].Name /= Cmds(index)[j].Name

\* getCommand returned, and no system call failed
Ran == pc = "done" /\ call.op = "run" /\ ret /= ErrIO

\* the record of the index that the name of the call is registered under
Registered == FirstNamed(index, call.args[1])

\* the files of the managed directory whose name without extension is the
\* name of the call
Candidates ==
    {f \in files \cup {Join(ScriptDp, INDEX_FILE)} :
        Dir(f) = ScriptDp /\ Take(Base(f), Len(Base(f)) - Len(Ext(Base(f)))) = call.args[1]}

\* the errors of the index and of the lookup
IndexErrors == {ErrIO, ErrNotExist, ErrEOF, ErrFormat, ErrDecode, CmdNotFoundErr}

\* C23: getCommand resolves a name registered in the index to the script of
\* its record and never to a file of the managed directory; a name that is
\* not registered resolves to a file of the managed directory named so, and is
\* not found when there is none; an error of the index other than not found
\* is returned and nothing is resolved.
C23_Dispatch ==
    Ran =>
        /\ (Valid(index) /\ call.args[1] \in Names(index)) =>
              /\ ret \notin IndexErrors
              /\ ret = Nil => res = [call.args EXCEPT ![1] = Registered.Script]
              /\ ret /= Nil => res = NoResult
        /\ (Valid(index) /\ call.args[1] \notin Names(index) /\ Candidates /= {}) =>
              /\ ret = Nil /\ res[1] \in Candidates
              /\ SubSeq(res, 2, Len(res)) = SubSeq(call.args, 2, Len(call.args))
        /\ (Valid(index) /\ call.args[1] \notin Names(index) /\ Candidates = {}) =>
              (ret = CmdNotFoundErr /\ res = NoResult)
        /\ ~index.exists => (ret = ErrNotExist /\ res = NoResult)
        /\ OtherToken(index) => (ret = ErrFormat /\ res = NoResult)
        /\ ret \notin {Nil, CmdNotFoundErr} => res = NoResult

C23_Witness ==
    /\ Ran /\ call.args = <<"zz", "x", "y">> /\ Len(Cmds(index)) = 2 /\ Valid(index)
    /\ {"/r/zz.sh", "/r/zz.py"} \subseteq files
    /\ ret = Nil /\ res = <<"/r/zz.py", "x", "y">>

\* C26: for a name registered with the bounds min and max, getCommand
\* resolves a call with n arguments for the script exactly when min <= n and
\* max is -1 or n <= max; otherwise it returns an argument-count error and no
\* command line.
C26_ArgCount ==
    (Ran /\ Valid(index) /\ call.args[1] \in Names(index)) =>
        /\ ret = Nil <=>
             /\ Registered.Meta.MinNumArgs <= Len(call.args) - 1
             /\ \/ Registered.Meta.MaxNumArgs = -1
                \/ Len(call.args) - 1 <= Registered.Meta.MaxNumArgs
        /\ ret = Nil => res = [call.args EXCEPT ![1] = Registered.Script]
        /\ ret /= Nil =>
             /\ res = NoResult
             /\ ret \in {ArgsMessage(Registered, w, k) :
                           w \in {"at least", "at most"},
                           k \in {Registered.Meta.MinNumArgs, Registered.Meta.MaxNumArgs}}

C26_Witness ==
    /\ Ran /\ call.args = <<"a", "x", "y", "z">> /\ Valid(index)
    /\ Registered = jsonCmd("a", "/t/a.sh", 1, 2) /\ Len(Cmds(index)) = 2
    /\ ret /= Nil /\ res = NoResult

\* C28: the argument-count error names the minimum when the call has fewer
\* arguments than the minimum, names the maximum only when the call has more
\* arguments than a maximum other than -1, and never names a maximum of -1.
C28_NamesBound ==
    (Ran /\ Valid(index) /\ call.args[1] \in Names(index) /\ ret /= Nil) =>
        /\ Len(call.args) - 1 < Registered.Meta.MinNumArgs =>
              ret = ArgsMessage(Registered, "at least", Registered.Meta.MinNumArgs)
        /\ ret = ArgsMessage(Registered, "at most", Registered.Meta.MaxNumArgs) =>
              /\ Registered.Meta.MaxNumArgs /= -1
              /\ Len(call.args) - 1 > Registered.Meta.MaxNumArgs
        /\ ret /= ArgsMessage(Registered, "at most", -1)

\* the arrays the index held: before the rewriting call and now
Versions == {Cmds(index)} \cup (IF hist = <<>> THEN {} ELSE {Cmds(hist[1])})

\* C24: a reader at work while a Rewriter runs on a well-formed index decodes
\* the records of the array from before the call or of the array the call
\* committed, from the first to the last, and returns no error.
C24_ReaderSeesWhole ==
    (Valid(index) /\ (hist /= <<>> => Valid(hist[1]))) =>
        /\ \E v \in Versions :
              Len(rd.seen) <= Len(v) /\ rd.seen = SubSeq(v, 1, Len(rd.seen))
        /\ rd.pc = "done" => (rd.ret = Nil /\ rd.seen \in Versions)

C24_Witness ==
    /\ rd.pc = "done" /\ rd.orphan /\ pc = "done" /\ ret = Nil /\ call.op = "delete"
    /\ Len(rd.seen) = 2 /\ rd.seen = Cmds(hist[1]) /\ Len(Cmds(index)) = 1

\* both calls of appendToIndex returned
BothAppended == ap.p /= <<>> /\ \A i \in 1..Len(ap.p) : ap.p[i].pc = "done"

\* the index is an array of the records it held at the start and, after
\* them, the records of the two calls
HoldsBoth ==
    /\ Valid(index)
    /\ Len(Cmds(index)) = Len(ParseIndex(ap.start).cmds) + 2
    /\ SubSeq(Cmds(index), 1, Len(Cmds(index)) - 2) = ParseIndex(ap.start).cmds
    /\ {Marshal(Cmds(index)[i]) : i \in (Len(Cmds(index)) - 1)..Len(Cmds(index))}
         = {ap.p[1].raw, ap.p[2].raw}
    /\ ap.p[1].raw = ap.p[2].raw =>
         Cmds(index)[Len(Cmds(index)) - 1] = Cmds(index)[Len(Cmds(index))]

\* C25: when two calls of appendToIndex have both read the size and the tail
\* of the index before either writes, the index they leave is not an array
\* of the records of before and the two new ones: nothing keeps the two
\* calls apart.
C25_AppendRace == (BothAppended /\ ap.raced) => ~HoldsBoth

C25_Witness ==
    /\ BothAppended /\ ap.raced /\ ~Valid(index)
    /\ ap.p[1].err = Nil /\ ap.p[2].err = Nil /\ Len(ParseIndex(ap.start).cmds) = 1

\* C27: after TidyCmd returned, with an error or without, the script of
\* every record of the index is a file that exists, given that it was so
\* before the call.
C27_TidyConsistent ==
    (pc = "done" /\ call.op = "tidy" /\ Valid(hist[1])
       /\ \A i \in 1..Len(Cmds(hist[1])) : Cmds(hist[1])[i].Script \in TidyFiles) =>
        \A i \in 1..Len(Cmds(index)) : Cmds(index)[i].Script \in files

\* C29: SetUp makes an index file holding [] when there is none and leaves
\* an index file that exists byte for byte as it is.
C29_SetUpKeeps ==
    (pc = "done" /\ call.op = "setup") =>
        /\ hist[1].exists => index = hist[1]
        /\ ~hist[1].exists => index = File("[]")
        /\ hist[2] = index

C29_Witness ==
    /\ pc = "done" /\ call.op = "setup" /\ ret = Nil
    /\ Valid(index) /\ Len(Cmds(index)) = 2 /\ index = hist[1]

====
